---- MODULE Spec2Model ----
(***************************************************************************)
(* The fallback orchestration of src/education_agent/agent.py: the entry   *)
(* point call_agent, the orchestrator and the adapter call_agent_async,    *)
(* run by any number of concurrent top-level calls against the shared      *)
(* session_service and the two shared runners.                             *)
(***************************************************************************)
EXTENDS Integers, Sequences, FiniteSets, TLC

\* ---------------------------------------------------------------- bounds
MaxCalls == 2     \* top-level calls of call_agent in one run
MaxParts == 2     \* parts in one event's content at most
MaxChunks == 2    \* chunks a text emitted by a backend is made of at most

Calls == 1..MaxCalls

\* ------------------------------------------------------- Python values
\* A str is the tuple of its characters; None is its own value.
Str(s) == [type |-> "str", val |-> s]
None == [type |-> "NoneType", val |-> <<>>]
\* A local variable that has not been assigned yet.
Unset == [type |-> "unassigned", val |-> <<>>]

APP_NAME == "education-orchestrator-app"
WEBAPP_USER == "webapp-user"
data_runner == [agent |-> "DataAgent", app_name |-> APP_NAME]
search_runner == [agent |-> "SearchAgent", app_name |-> APP_NAME]

SENTINEL ==
  <<"N","O","_","D","A","T","A","_","F","O","U","N","D">>
PLACEHOLDER ==
  <<"A","g","e","n","t"," ","d","i","d"," ","n","o","t"," ","p","r","o","d",
    "u","c","e"," ","a"," ","f","i","n","a","l"," ","r","e","s","p","o","n",
    "s","e",".">>

\* The queries a user submits.
Queries ==
  { <<"c","a","p","i","t","a","l","?">>,
    <<"N","O","_","D","A","T","A","_","F","O","U","N","D">> }

\* ------------------------------------------------- what a backend emits
\* Texts are concatenations of at most MaxChunks chunks: the sentinel and a
\* near miss of it, so that the sentinel occurs alone, after other text,
\* before other text, and not at all.
NearMiss == <<"N","O","_","D","A","T","A","_">>
Chunks == {SENTINEL, NearMiss}

RECURSIVE TextsOf(_)
TextsOf(n) ==
  IF n = 0 THEN {<<>>}
  ELSE LET shorter == TextsOf(n - 1)
       IN  shorter \cup {t \o c : t \in shorter, c \in Chunks}
Texts == TextsOf(MaxChunks)

\* A part carries a text or none (a function call, say).
Parts == {[text |-> Str(t)] : t \in Texts} \cup {[text |-> None]}
\* What follows the first part of a content with several parts.
TrailingPart == [text |-> Str(<<"F","O","U","N","D">>)]
PartLists ==
  {<<>>} \cup
  {<<p>> \o [i \in 1..n |-> TrailingPart] : p \in Parts, n \in 0..(MaxParts - 1)}
\* An event: is_final_response(), whether content is set, content.parts.
Events ==
  {[final |-> f, has_content |-> FALSE, parts |-> <<>>] : f \in BOOLEAN}
  \cup
  {[final |-> f, has_content |-> TRUE, parts |-> ps] :
      f \in BOOLEAN, ps \in PartLists}

\* The events of the runs with several callers.
CoreEvents ==
  {[final |-> TRUE, has_content |-> TRUE, parts |-> <<[text |-> Str(SENTINEL)]>>],
   [final |-> TRUE, has_content |-> TRUE, parts |-> <<[text |-> Str(NearMiss)]>>],
   [final |-> FALSE, has_content |-> TRUE, parts |-> <<[text |-> Str(SENTINEL)]>>]}

\* --------------------------------------------------------------- helpers
\* Python's `s in t` for two strs: s occurs in t as a contiguous run.
Contains(s, t) ==
  \E i \in 1..(Len(t) - Len(s) + 1) : SubSeq(t, i, i + Len(s) - 1) = s

\* Event e carries a text in its first part.
HasText(e) == e.has_content /\ e.parts # <<>> /\ e.parts[1].text.type = "str"

\* The sentinel check gone wrong: a shorter token is looked for.
SentinelDetectedShortToken(data_resp) == Contains(NearMiss, data_resp.val)
\* The sentinel check gone wrong: equality instead of containment.
SentinelDetectedExact(data_resp) == data_resp.val = SENTINEL

\* Line 135: the sentinel occurs somewhere in the Data-Agent's answer.
SentinelDetected(data_resp) == Contains(SENTINEL, data_resp.val)

\* The loop body gone wrong: the text of any event is kept, final or not.
OnEventAny(frt, e) ==
  IF e.has_content /\ e.parts # <<>>
  THEN e.parts[1].text
  ELSE frt

\* Lines 116-118: final_response_text after the loop body has seen event e.
OnEvent(frt, e) ==
  IF e.final /\ e.has_content /\ e.parts # <<>>
  THEN e.parts[1].text
  ELSE frt

\* The loop gone wrong: no break, the stream is read to its end.
BreaksNever(e) == FALSE

\* Lines 116 and 119: the loop is left at a final response.
Breaks(e) == e.final

\* Lines 13 and 154: uuid4 draws an identifier no earlier draw has produced (a
\* collision of two random 122-bit values is not modelled).
IDs == 1..MaxCalls
\* The identifier gone wrong: one that may have been handed out before.
uuid4Repeating(drawn) == IDs
uuid4(drawn) == IDs \ drawn

\* Lines 105-106 and 115: the session a runner looks up for an invocation.
InvocationKey(inv) == <<inv.runner.app_name, inv.user_id, inv.session_id>>
\* Lines 157-159: the session create_session inserts.
CreateKey(user, sid) == <<APP_NAME, user, sid>>

\* The entry point gone wrong: the orchestrator runs on a session nobody made.
AfterIdsNoSession == "START"
\* Line 157: call_agent awaits create_session before the orchestrator.
AfterIds == "create_session"
\* Step 1 gone wrong: both agents are started at once.
Step1RunnersBoth == <<data_runner, search_runner>>
\* Line 133: what the orchestrator starts, and awaits, first.
Step1Runners == <<data_runner>>
\* Step 2 gone wrong: a sentinel in the Search-Agent's answer asks again.
AfterSearchRetry(search_resp) ==
  IF search_resp.type = "str" /\ Contains(SENTINEL, search_resp.val)
  THEN "PRIMARY_DONE"
  ELSE "DONE"
\* Line 139: the Search-Agent's answer is returned as it is.
AfterSearch(search_resp) == "DONE"

\* ----------------------------------------------------------------- state
VARIABLES
  pc,                   \* where each top-level call is
  query,                \* call_agent's argument
  user_id, session_id,  \* call_agent's locals (lines 153-154)
  final_response_text,  \* call_agent_async's local (line 113)
  event,                \* the loop variable of line 115: <<>> or <<e>>
  skipped,              \* the loop has passed over an event that carried a text
  data_response,        \* orchestrator's local (line 133)
  search_response,      \* orchestrator's local (line 138)
  result,               \* what call_agent returned to its caller
  invocations,          \* the calls of call_agent_async each call has made
  session_service,      \* the shared store: key -> times created
  drawn,                \* the identifiers uuid4 has produced
  backlog,              \* queries the callers have yet to submit
  emits                 \* the events the backends of this run can emit

vars ==
  <<pc, query, user_id, session_id, final_response_text, event, skipped,
    data_response, search_response, result, invocations, session_service,
    drawn, backlog, emits>>

Pending(c) == pc[c] \in {"PRIMARY_PENDING", "FALLBACK_PENDING"}

\* Everything but the callers and the backends: no call has been made.
InitCalls ==
  /\ pc = [c \in Calls |-> "idle"]
  /\ query = [c \in Calls |-> <<>>]
  /\ user_id = [c \in Calls |-> ""]
  /\ session_id = [c \in Calls |-> 0]
  /\ final_response_text = [c \in Calls |-> Unset]
  /\ event = [c \in Calls |-> <<>>]
  /\ skipped = [c \in Calls |-> FALSE]
  /\ data_response = [c \in Calls |-> Unset]
  /\ search_response = [c \in Calls |-> Unset]
  /\ result = [c \in Calls |-> Unset]
  /\ invocations = [c \in Calls |-> <<>>]
  /\ session_service = <<>>
  /\ drawn = {}

\* One user turn of the chat UI (app.py line 25 blocks on it), against
\* backends that emit any event.
Init ==
  /\ InitCalls
  /\ backlog = 1
  /\ emits = Events

\* MaxCalls callers at once, against backends that emit the events a
\* refusal, an answer and a progress report make.
InitConcurrent ==
  /\ InitCalls
  /\ backlog = MaxCalls
  /\ emits = CoreEvents

\* Lines 112-115: call_agent_async is entered for runner r.
Invocation(c, r) ==
  [runner |-> r, query |-> query[c], user_id |-> user_id[c],
   session_id |-> session_id[c], returned |-> FALSE]

\* Lines 146-154: the entry point is called and draws its identifiers.
call_agent(c, q, sid) ==
  /\ pc[c] = "idle"
  /\ backlog > 0
  /\ \A d \in Calls : d < c => pc[d] # "idle"
  /\ sid \in uuid4(drawn)
  /\ pc' = [pc EXCEPT ![c] = AfterIds]
  /\ query' = [query EXCEPT ![c] = q]
  /\ user_id' = [user_id EXCEPT ![c] = WEBAPP_USER]
  /\ session_id' = [session_id EXCEPT ![c] = sid]
  /\ drawn' = drawn \cup {sid}
  /\ backlog' = backlog - 1
  /\ UNCHANGED <<final_response_text, event, skipped, data_response,
                 search_response, result, invocations, session_service, emits>>

\* Lines 157-159: the session is inserted into the store.
create_session(c) ==
  /\ pc[c] = "create_session"
  /\ LET k == CreateKey(user_id[c], session_id[c])
     IN  session_service' =
           IF k \in DOMAIN session_service
           THEN [session_service EXCEPT ![k] = @ + 1]
           ELSE session_service @@ (k :> 1)
  /\ pc' = [pc EXCEPT ![c] = "START"]
  /\ UNCHANGED <<query, user_id, session_id, final_response_text, event,
                 skipped, data_response, search_response, result,
                 invocations, drawn, backlog, emits>>

\* Lines 161, 130-133: the orchestrator consults the DataAgent.
orchestrator_step1(c) ==
  /\ pc[c] = "START"
  /\ pc' = [pc EXCEPT ![c] = "PRIMARY_PENDING"]
  /\ invocations' =
       [invocations EXCEPT ![c] =
          @ \o [i \in 1..Len(Step1Runners) |-> Invocation(c, Step1Runners[i])]]
  /\ final_response_text' = [final_response_text EXCEPT ![c] = Str(PLACEHOLDER)]
  /\ event' = [event EXCEPT ![c] = <<>>]
  /\ skipped' = [skipped EXCEPT ![c] = FALSE]
  /\ UNCHANGED <<query, user_id, session_id, data_response, search_response,
                 result, session_service, drawn, backlog, emits>>

\* The runner the pending invocation of call c is on.
PendingRunner(c) ==
  IF pc[c] = "PRIMARY_PENDING" THEN data_runner ELSE search_runner

\* Line 120 and the await it ends (line 133 or lines 138-139, 161).
Returns(c, answer) ==
  /\ invocations' =
       [invocations EXCEPT ![c] =
          [i \in 1..Len(@) |->
             IF @[i].runner = PendingRunner(c) /\ ~@[i].returned
             THEN [@[i] EXCEPT !.returned = TRUE]
             ELSE @[i]]]
  /\ IF pc[c] = "PRIMARY_PENDING"
     THEN /\ data_response' = [data_response EXCEPT ![c] = answer]
          /\ pc' = [pc EXCEPT ![c] = "PRIMARY_DONE"]
          /\ UNCHANGED <<search_response, result>>
     ELSE /\ search_response' = [search_response EXCEPT ![c] = answer]
          /\ pc' = [pc EXCEPT ![c] = AfterSearch(answer)]
          /\ result' =
               [result EXCEPT ![c] =
                  IF AfterSearch(answer) = "DONE" THEN answer ELSE @]
          /\ UNCHANGED data_response

\* Lines 115-120: the stream yields event e and the loop body runs.
StreamEvent(c, e) ==
  /\ Pending(c)
  /\ e \in emits
  /\ event' = [event EXCEPT ![c] = <<e>>]
  /\ skipped' = [skipped EXCEPT ![c] = @ \/ (~Breaks(e) /\ HasText(e))]
  /\ final_response_text' =
       [final_response_text EXCEPT ![c] = OnEvent(@, e)]
  /\ IF Breaks(e)
     THEN Returns(c, OnEvent(final_response_text[c], e))
     ELSE UNCHANGED <<pc, data_response, search_response, result, invocations>>
  /\ UNCHANGED <<query, user_id, session_id, session_service, drawn, backlog,
                 emits>>

\* Lines 115, 120: the stream is exhausted and the loop ends.
StreamEnd(c) ==
  /\ Pending(c)
  /\ Returns(c, final_response_text[c])
  /\ UNCHANGED <<query, user_id, session_id, final_response_text, event,
                 skipped, session_service, drawn, backlog, emits>>

\* Lines 135-142: the orchestrator looks for the sentinel.
orchestrator_step2(c) ==
  /\ pc[c] = "PRIMARY_DONE"
  /\ IF data_response[c].type # "str"
     THEN \* `in` on a value that is no str raises TypeError
          /\ pc' = [pc EXCEPT ![c] = "RAISED"]
          /\ UNCHANGED <<final_response_text, event, skipped, result,
                         invocations>>
     ELSE IF SentinelDetected(data_response[c])
     THEN /\ pc' = [pc EXCEPT ![c] = "FALLBACK_PENDING"]
          /\ invocations' =
               [invocations EXCEPT ![c] = Append(@, Invocation(c, search_runner))]
          /\ final_response_text' =
               [final_response_text EXCEPT ![c] = Str(PLACEHOLDER)]
          /\ event' = [event EXCEPT ![c] = <<>>]
          /\ skipped' = [skipped EXCEPT ![c] = FALSE]
          /\ UNCHANGED result
     ELSE /\ pc' = [pc EXCEPT ![c] = "DONE"]
          /\ result' = [result EXCEPT ![c] = data_response[c]]
          /\ UNCHANGED <<final_response_text, event, skipped, invocations>>
  /\ UNCHANGED <<query, user_id, session_id, data_response, search_response,
                 session_service, drawn, backlog, emits>>

Next ==
  \E c \in Calls :
    \/ \E q \in Queries, sid \in IDs : call_agent(c, q, sid)
    \/ create_session(c)
    \/ orchestrator_step1(c)
    \/ \E e \in Events : StreamEvent(c, e)
    \/ StreamEnd(c)
    \/ orchestrator_step2(c)

Spec == Init /\ [][Next]_vars

SpecConcurrent == InitConcurrent /\ [][Next]_vars

\* The stream of call c's pending invocation ends or emits a final response.
StreamTerminates(c) ==
  StreamEnd(c) \/ \E e \in Events : e.final /\ StreamEvent(c, e)

\* The event loop runs every coroutine that is ready (asyncio), and every
\* event stream ends or emits a final response.
Fairness ==
  \A c \in Calls :
    /\ WF_vars(create_session(c))
    /\ WF_vars(orchestrator_step1(c))
    /\ WF_vars(orchestrator_step2(c))
    /\ WF_vars(StreamTerminates(c))

FairSpec == Init /\ [][Next]_vars /\ Fairness

\* ---------------------------------------------------------------- claims
HasSentinel(v) == v.type = "str" /\ Contains(SENTINEL, v.val)
NonSentinel(v) == v.type = "str" /\ ~Contains(SENTINEL, v.val)
SearchInvocations(c) ==
  {i \in 1..Len(invocations[c]) : invocations[c][i].runner = search_runner}
DataInvocations(c) ==
  {i \in 1..Len(invocations[c]) : invocations[c][i].runner = data_runner}
\* The latest invocation of call c has returned to the orchestrator.
Returned(c) == pc[c] \in {"PRIMARY_DONE", "DONE", "RAISED"}
\* What the latest invocation of call c returned.
LastAnswer(c) ==
  IF search_response[c] # Unset THEN search_response[c] ELSE data_response[c]
\* The latest invocation of call c has consumed a final response.
SawTerminal(c) == event[c] # <<>> /\ event[c][1].final

\* C1: a Data-Agent answer that is a text without the sentinel (the
\* placeholder included) is what the call returns, unchanged, and the
\* Search-Agent is not invoked in that call.
C1_NonSentinelAnswerIsFinal ==
  \A c \in Calls :
    NonSentinel(data_response[c]) =>
      /\ pc[c] \in {"PRIMARY_DONE", "DONE"}
      /\ SearchInvocations(c) = {}
      /\ search_response[c] = Unset
      /\ pc[c] = "DONE" => result[c] = data_response[c]

C1_Witness ==
  \E c \in Calls :
    /\ pc[c] = "DONE"
    /\ data_response[c] = Str(NearMiss \o NearMiss)
    /\ result[c] = Str(NearMiss \o NearMiss)
    /\ SearchInvocations(c) = {}

\* C2: a Data-Agent answer with the sentinel anywhere in it makes the
\* orchestrator invoke the Search-Agent with the call's own query, user id
\* and session id, and the call returns the Search-Agent's answer.
C2_SentinelEscalates ==
  \A c \in Calls :
    HasSentinel(data_response[c]) =>
      /\ pc[c] \in {"PRIMARY_DONE", "FALLBACK_PENDING", "DONE"}
      /\ pc[c] # "PRIMARY_DONE" =>
           /\ Len(invocations[c]) = 2
           /\ invocations[c][2].runner = search_runner
           /\ invocations[c][2].query = query[c]
           /\ invocations[c][2].query = invocations[c][1].query
           /\ invocations[c][2].user_id = invocations[c][1].user_id
           /\ invocations[c][2].session_id = invocations[c][1].session_id
      /\ pc[c] = "DONE" =>
           /\ search_response[c] # Unset
           /\ result[c] = search_response[c]

C2_Witness ==
  \E c \in Calls :
    /\ pc[c] = "DONE"
    /\ data_response[c] = Str(NearMiss \o SENTINEL)
    /\ search_response[c] = Str(NearMiss)
    /\ result[c] = Str(NearMiss)
    /\ invocations[c][2].query = query[c]

\* C3: a call invokes the Data-Agent once and the Search-Agent at most
\* once, and whatever the Search-Agent answers ends the call with that
\* answer as the result.
C3_AtMostOneEscalation ==
  \A c \in Calls :
    /\ Cardinality(DataInvocations(c)) =
         (IF pc[c] \in {"idle", "create_session", "START"} THEN 0 ELSE 1)
    /\ Cardinality(SearchInvocations(c)) <= 1
    /\ search_response[c] # Unset =>
         pc[c] = "DONE" /\ result[c] = search_response[c]

C3_Witness ==
  \E c \in Calls :
    /\ pc[c] = "DONE"
    /\ search_response[c] = Str(SENTINEL)
    /\ result[c] = Str(SENTINEL)
    /\ Cardinality(SearchInvocations(c)) = 1

\* C4: of one call's invocations at most one is in progress, the first is
\* the Data-Agent's, and the Search-Agent's begins only when the
\* Data-Agent's has returned its answer.
C4_Sequential ==
  \A c \in Calls :
    /\ Cardinality({i \in 1..Len(invocations[c]) :
                      ~invocations[c][i].returned}) <= 1
    /\ \A i \in 1..Len(invocations[c]) :
         /\ i = 1 => invocations[c][i].runner = data_runner
         /\ invocations[c][i].runner = search_runner =>
              /\ i > 1
              /\ invocations[c][1].returned
              /\ data_response[c] # Unset

C4_Witness ==
  \E c \in Calls :
    /\ pc[c] = "FALLBACK_PENDING"
    /\ Len(invocations[c]) = 2
    /\ invocations[c][1].returned
    /\ ~invocations[c][2].returned

\* C5: an invocation whose stream ended with no final response in it (an
\* empty stream included) returns the placeholder.
C5_PlaceholderWithoutTerminal ==
  \A c \in Calls :
    Returned(c) /\ ~SawTerminal(c) => LastAnswer(c) = Str(PLACEHOLDER)

C5_Witness ==
  \E c \in Calls :
    /\ pc[c] = "PRIMARY_DONE"
    /\ skipped[c]
    /\ ~SawTerminal(c)
    /\ data_response[c] = Str(PLACEHOLDER)

\* C6: the entry point never raises and what it returns is a string.
C6_AlwaysAString ==
  \A c \in Calls :
    /\ pc[c] # "RAISED"
    /\ pc[c] = "DONE" => result[c].type = "str"

\* C7: every invocation of a call refers to the call's one session, which
\* is in the store by then; a call makes at most two invocations, the
\* Data-Agent's and then the Search-Agent's, never two at a time.
C7_SessionBeforeUse ==
  \A c \in Calls :
    /\ Len(invocations[c]) <= 2
    /\ Cardinality({i \in 1..Len(invocations[c]) :
                      ~invocations[c][i].returned}) <= 1
    /\ \A i \in 1..Len(invocations[c]) :
         /\ InvocationKey(invocations[c][i]) \in DOMAIN session_service
         /\ invocations[c][i].session_id = session_id[c]
         /\ invocations[c][i].user_id = user_id[c]
         /\ invocations[c][i].runner =
              (IF i = 1 THEN data_runner ELSE search_runner)

C7_Witness ==
  \E c, d \in Calls :
    /\ c # d
    /\ pc[c] = "FALLBACK_PENDING"
    /\ Len(invocations[c]) = 2
    /\ pc[d] = "create_session"
    /\ InvocationKey(invocations[c][2]) \in DOMAIN session_service

\* C8: concurrent calls have pairwise distinct session identifiers, no key
\* is inserted into the store twice, and a call's result is decided by the
\* answers of its own invocations.
C8_CallsDoNotInterfere ==
  /\ \A c, d \in Calls :
       c # d /\ session_id[c] # 0 /\ session_id[d] # 0 =>
         session_id[c] # session_id[d]
  /\ \A k \in DOMAIN session_service : session_service[k] = 1
  /\ \A c \in Calls :
       pc[c] = "DONE" =>
         result[c] = (IF HasSentinel(data_response[c])
                      THEN search_response[c]
                      ELSE data_response[c])

C8_Witness ==
  \E c, d \in Calls :
    /\ c # d
    /\ pc[c] = "DONE" /\ pc[d] = "DONE"
    /\ query[c] # query[d]
    /\ session_id[c] # session_id[d]
    /\ result[c] # result[d]
    /\ Cardinality(DOMAIN session_service) = 2

\* C9 as stated: the answer of an invocation that consumed a final response
\* is a text that event carries.
C9_AnswerIsTextOfTerminalEvent ==
  \A c \in Calls :
    Returned(c) /\ SawTerminal(c) =>
      \E i \in 1..Len(event[c][1].parts) :
        LastAnswer(c) = event[c][1].parts[i].text

\* C9 amended: the loop stops at the first final response; the answer is the
\* text of that event's first part when the event has content with a part,
\* and the placeholder when it has none; events passed over before it leave
\* no trace in the answer.
C9_AnswerIsFirstPartOrPlaceholder ==
  \A c \in Calls :
    /\ Pending(c) => ~SawTerminal(c)
    /\ Pending(c) => final_response_text[c] = Str(PLACEHOLDER)
    /\ Returned(c) /\ SawTerminal(c) =>
         LastAnswer(c) =
           (IF event[c][1].has_content /\ event[c][1].parts # <<>>
            THEN event[c][1].parts[1].text
            ELSE Str(PLACEHOLDER))

C9_Witness ==
  \E c \in Calls :
    /\ pc[c] = "PRIMARY_DONE"
    /\ skipped[c]
    /\ SawTerminal(c)
    /\ event[c][1].parts = <<[text |-> Str(NearMiss)], TrailingPart>>
    /\ data_response[c] = Str(NearMiss)

\* C10: a call moves through START, PRIMARY_PENDING, PRIMARY_DONE,
\* FALLBACK_PENDING, DONE in that order; it leaves a pending state only when
\* its stream ends or emits a final response; and, its streams ending or
\* emitting a final response, it reaches DONE.
OrchestratorMoves ==
  {<<"START", "PRIMARY_PENDING">>, <<"PRIMARY_PENDING", "PRIMARY_DONE">>,
   <<"PRIMARY_DONE", "FALLBACK_PENDING">>, <<"PRIMARY_DONE", "DONE">>,
   <<"FALLBACK_PENDING", "DONE">>}
C10_ReachesDone ==
  /\ [][\A c \in Calls :
          pc[c] \in {"START", "PRIMARY_PENDING", "PRIMARY_DONE",
                     "FALLBACK_PENDING", "DONE"} /\ pc'[c] # pc[c]
            => <<pc[c], pc'[c]>> \in OrchestratorMoves]_vars
  /\ [][\A c \in Calls :
          Pending(c) /\ pc'[c] # pc[c]
            => SawTerminal(c)' \/ event'[c] = event[c]]_vars
  /\ \A c \in Calls : [](pc[c] = "START" => <>(pc[c] = "DONE"))

====
